---- MODULE Spec2Model ----
(***************************************************************************)
(* Model of phoenix.session.client.Client: the HTTP client of a Phoenix    *)
(* server with its four public operations (query_spans, get_evaluations,   *)
(* log_evaluations, log_traces) and its constructor with the liveness      *)
(* probe.  One client is modelled.  The transport (requests.Session), the  *)
(* Arrow IPC codec and the in-process session are the environment: their   *)
(* answers are drawn nondeterministically from small sets.                 *)
(***************************************************************************)
EXTENDS Integers, Sequences, FiniteSets, TLC

VARIABLES
    pc,                 \* where the single caller thread is
    use_active_session_if_available,  \* Client._use_active_session_if_available
    base_url,           \* Client._base_url
    active_session,     \* px.active_session() is not None
    env_project,        \* what get_env_project_name() returns
    call,               \* the operation in progress (or the last one) with its arguments
    sent,               \* HTTP requests issued by the constructor / the current call, in order
    idx,                \* upload loops: number of items whose request was answered successfully
    response,           \* the response whose handling is in progress
    cursor,             \* position of the BytesIO read cursor in response.content
    results,            \* the list `results` of the decode loops
    outcome,            \* what the last call gave its caller: a value or an exception
    session_log,        \* calls delegated to the active session by the current call
    probe,              \* what the liveness probe of the constructor did
    warned,             \* number of warnings the constructor logged
    init_endpoint,      \* the endpoint argument the client was constructed with
    init_session        \* whether a session was active when the client was constructed

vars == <<pc, use_active_session_if_available, base_url, active_session, env_project,
          call, sent, idx, response, cursor, results, outcome, session_log, probe, warned,
          init_endpoint, init_session>>

----------------------------------------------------------------------------
(* Bounds of the model *)

\* longest response body, in chunks
MaxBody == 2
\* most Evaluations objects given to one log_evaluations call
MaxEvals == 2
\* most spans of a TraceDataset
MaxSpans == 2
\* most SpanQuery objects given to one query_spans call
MaxQueries == 2

----------------------------------------------------------------------------
(* Python values *)

\* Optional[str]: None is kept apart from every string, the empty string included
None == "<None>"

\* Python truthiness of an Optional[str]
Truthy(s) == s # None /\ s # ""

\* `a or b` on Optional[str] values
Or(a, b) == IF Truthy(a) THEN a ELSE b

PyNone == [t |-> "None"]
PyList(s) == [t |-> "list", v |-> s]
DataFrame(tbl) == [t |-> "DataFrame", v |-> tbl]

SeqsUpTo(S, n) == UNION {[1..k -> S] : k \in 0..n}

----------------------------------------------------------------------------
(* Tables, response bodies and the codecs *)

\* A table is known by its shape and by a tag telling its content apart.
Table(r, c, tag) == [rows |-> r, cols |-> c, tag |-> tag]
NoTable == Table(0, 0, "-")

\* The tables a server sends: the 0x0 table, a table of columns without rows,
\* and a table with a row.
Tables == {Table(0, 0, "t"), Table(0, 1, "t"), Table(1, 1, "t")}

\* DataFrame.shape
shape(df) == <<df.rows, df.cols>>

\* A body is a sequence of chunks: a raw byte, or one complete Arrow IPC stream
\* (schema, batches, end-of-stream marker) holding one table.  An IPC stream
\* starts with the continuation marker 0xFFFFFFFF, so its first byte is 0xFF.
Raw(b) == [kind |-> "raw", byte |-> b, table |-> NoTable]
Ipc(tbl) == [kind |-> "ipc", byte |-> 255, table |-> tbl]

\* bytes of text bodies: the two bytes 0xC3 0xA9 of U+00E9; each alone is no text
RawBytes == {195, 169}

\* bytes.decode(): strict UTF-8, one- and two-byte sequences.  Gives the code
\* points, or ok = FALSE where Python raises UnicodeDecodeError.
RECURSIVE Utf8Decode(_)
Utf8Decode(content) ==
    IF content = <<>> THEN [ok |-> TRUE, text |-> <<>>]
    ELSE LET b == content[1].byte IN
         IF b < 128
         THEN LET rest == Utf8Decode(Tail(content)) IN
              [ok |-> rest.ok, text |-> <<b>> \o rest.text]
         ELSE IF b >= 194 /\ b <= 223 /\ Len(content) >= 2
                 /\ content[2].byte >= 128 /\ content[2].byte <= 191
         THEN LET rest == Utf8Decode(Tail(Tail(content))) IN
              [ok |-> rest.ok,
               text |-> <<(b - 192) * 64 + (content[2].byte - 128)>> \o rest.text]
         ELSE [ok |-> FALSE, text |-> <<>>]

\* a faulty reader: the cursor stays where it was after a table is read
open_stream_NoAdvance(content, pos) ==
    IF pos <= Len(content) /\ content[pos].kind = "ipc"
    THEN [ok |-> TRUE, table |-> content[pos].table, pos |-> pos]
    ELSE [ok |-> FALSE, table |-> NoTable, pos |-> pos]

\* pa.ipc.open_stream(source) + reader.read_pandas() at the cursor: one table
\* and the cursor behind its stream, or ArrowInvalid when no stream starts there.
open_stream(content, pos) ==
    IF pos <= Len(content) /\ content[pos].kind = "ipc"
    THEN [ok |-> TRUE, table |-> content[pos].table, pos |-> pos + 1]
    ELSE [ok |-> FALSE, table |-> NoTable, pos |-> pos]

----------------------------------------------------------------------------
(* The transport *)

\* Status codes a server answers with: success, a 3xx without redirect,
\* not found, unprocessable, server error.
Statuses == {200, 304, 404, 422, 500}

Response(status, content) == [status_code |-> status, content |-> content]
NoResponse == Response(0, <<>>)

\* faulty status checks: only server errors raise; nothing raises
raise_for_status_Only5xx(r) == r.status_code >= 500 /\ r.status_code < 600
raise_for_status_Never(r) == FALSE

\* requests.Response.raise_for_status(): raises HTTPError for 4xx and 5xx.
raise_for_status(r) == r.status_code >= 400 /\ r.status_code < 600

\* urllib.parse.urljoin(base, path) with an absolute path: the path of the
\* base is replaced.
urljoin(base, path) == [origin |-> base.origin, path |-> path]

Url(origin, path) == [origin |-> origin, path |-> path]
NoUrl == Url("", "")

----------------------------------------------------------------------------
(* Requests *)

\* A request as handed to requests.Session: method, url, the json= argument,
\* the data= argument and the headers= argument (absent arguments are None).
Request(method, url, json, data, headers) ==
    [method |-> method, url |-> url, json |-> json, data |-> data, headers |-> headers]

NoJson == [t |-> "None"]
NoData == [t |-> "None"]
NoHeaders == [t |-> "None"]

\* Strings that name a server: None, "" or a url with an origin and a path
NoneUrl == Url(None, "")
TruthyUrl(u) == u # NoneUrl /\ u # Url("", "")
OrUrl(a, b) == IF TruthyUrl(a) THEN a ELSE b

\* endpoint arguments: absent, empty, a server under a path prefix
Endpoints == {NoneUrl, Url("", ""), Url("http://ep:6006", "/px")}
\* what get_env_collector_endpoint() returns
EnvEndpoints == {NoneUrl, Url("http://env:6006", "")}
\* what get_env_host() returns
EnvHosts == {"0.0.0.0", "localhost"}
\* what get_env_port() returns
EnvPort == "6006"
\* what get_env_project_name() returns: nothing, or a name
EnvProjects == {"", "default"}

\* project_name arguments
ProjectNames == {None, "", "p"}

\* datetime values: the hour and the microsecond vary
DateTime(h, us) == [hour |-> h, microsecond |-> us]
NoneTime == DateTime(-1, 0)
StartTimes == {NoneTime, DateTime(9, 0)}
StopTimes == {NoneTime, DateTime(17, 5)}

\* datetime.isoformat(): the microseconds are printed only when they are not 0
isoformat(d) ==
    "2024-01-01T" \o (IF d.hour < 10 THEN "0" ELSE "") \o ToString(d.hour) \o ":00:00"
    \o (IF d.microsecond = 0 THEN "" ELSE ".00000" \o ToString(d.microsecond))

\* a faulty serializer: an absent timestamp becomes the text of None
_to_iso_format_Placeholder(value) == IF value # NoneTime THEN isoformat(value) ELSE "None"

\* lines 249-250: value.isoformat() if value else None
_to_iso_format(value) == IF value # NoneTime THEN isoformat(value) ELSE None

\* root_spans_only arguments (Optional[bool])
RootOptions == {None, "True"}

\* SpanQuery objects: SpanQuery() has no filter
SpanQuery(f) == [filter |-> f]
SpanQueries == {SpanQuery(""), SpanQuery("f")}
to_dict(q) == [filter |-> [condition |-> q.filter]]

Map(f(_), s) == [i \in 1..Len(s) |-> f(s[i])]

\* what the in-process session may return from query_spans / get_evaluations
SessionValues == {PyNone, DataFrame(Table(1, 1, "s")), PyList(<<>>)}

----------------------------------------------------------------------------
(* Outcomes of a call *)

NoOutcome == [kind |-> "-"]
Return(v) == [kind |-> "return", value |-> v]
\* ValueError(message), UnicodeDecodeError: the message is a text (code points)
Raise(exc, msg) == [kind |-> "raise", exc |-> exc, msg |-> msg]
\* requests.HTTPError carries the response
RaiseHTTPError(r) == [kind |-> "raise", exc |-> "HTTPError", response |-> r]

NoCall == [op |-> "-"]

TypeOK ==
    /\ pc \in {"new", "probe", "idle", "wait", "decode", "done"}
    /\ use_active_session_if_available \in BOOLEAN
    /\ active_session \in BOOLEAN
    /\ init_session \in BOOLEAN
    /\ env_project \in EnvProjects
    /\ idx \in 0..(MaxEvals + MaxSpans)
    /\ cursor \in 1..(MaxBody + 1)
    /\ warned \in 0..1
    /\ probe \in {"-", "skipped", "pending", "ok", "failed"}

Init ==
    /\ pc = "new"
    /\ use_active_session_if_available = FALSE
    /\ base_url = NoUrl
    /\ active_session = FALSE
    /\ env_project \in EnvProjects
    /\ call = NoCall
    /\ sent = <<>>
    /\ idx = 0
    /\ response = NoResponse
    /\ cursor = 1
    /\ results = <<>>
    /\ outcome = NoOutcome
    /\ session_log = <<>>
    /\ probe = "-"
    /\ warned = 0
    /\ init_endpoint = NoneUrl
    /\ init_session = FALSE

----------------------------------------------------------------------------
(* The in-process session comes and goes (px.launch_app, px.close_app) *)

LaunchApp ==
    /\ pc \in {"new", "idle"}
    /\ ~active_session
    /\ active_session' = TRUE
    /\ UNCHANGED <<pc, use_active_session_if_available, base_url, env_project, call, sent,
                   idx, response, cursor, results, outcome, session_log, probe, warned, init_endpoint, init_session>>

CloseApp ==
    /\ pc \in {"new", "idle"}
    /\ active_session
    /\ active_session' = FALSE
    /\ UNCHANGED <<pc, use_active_session_if_available, base_url, env_project, call, sent,
                   idx, response, cursor, results, outcome, session_log, probe, warned, init_endpoint, init_session>>

----------------------------------------------------------------------------
(* Client.__init__ and Client._warn_if_phoenix_is_not_running *)

\* a faulty constructor: the endpoint does not switch the flag off
InitFlag_IgnoresEndpoint(endpoint, use_active) == use_active

\* self._use_active_session_if_available
InitFlag(endpoint, use_active) == use_active /\ ~TruthyUrl(endpoint)

\* self._base_url
InitBaseUrl(endpoint, env_endpoint, env_host) ==
    LET host == IF env_host = "0.0.0.0" THEN "127.0.0.1" ELSE env_host IN
    OrUrl(endpoint, OrUrl(env_endpoint, Url("http://" \o host \o ":" \o EnvPort, "")))

\* the probe's request
ProbeRequest(base) ==
    Request("GET", urljoin(base, "/arize_phoenix_version"), NoJson, NoData, NoHeaders)

\* the probe is left out when the shortcut is on and a session is active
SkipProbe_Never(flag, session) == FALSE
SkipProbe(flag, session) == flag /\ session

\* __init__ up to the probe's request, or to its end when the probe is skipped
Construct(endpoint, use_active, env_endpoint, env_host) ==
    /\ pc = "new"
    /\ use_active_session_if_available' = InitFlag(endpoint, use_active)
    /\ base_url' = InitBaseUrl(endpoint, env_endpoint, env_host)
    /\ IF ~SkipProbe(use_active_session_if_available', active_session)
       THEN /\ sent' = <<ProbeRequest(base_url')>>
            /\ probe' = "pending"
            /\ pc' = "probe"
       ELSE /\ sent' = <<>>
            /\ probe' = "skipped"
            /\ pc' = "done"
    /\ init_endpoint' = endpoint
    /\ init_session' = active_session
    /\ call' = [op |-> "__init__", endpoint |-> endpoint,
                use_active_session_if_available |-> use_active,
                env_endpoint |-> env_endpoint, env_host |-> env_host]
    /\ UNCHANGED <<active_session, env_project, idx, response, cursor, results,
                   outcome, session_log, warned>>

\* line 167: what the try block of the probe raises, if anything
ProbeTry(raised, r) ==
    IF raised THEN Raise("ConnectionError", <<>>)
    ELSE IF raise_for_status(r) THEN RaiseHTTPError(r)
    ELSE NoOutcome

\* a faulty handler: the exception is raised again after the warning
Absorb_Reraise(exc) == exc

\* lines 168-172: `except Exception` logs a warning and does not raise again
Absorb(exc) == NoOutcome

\* the probe's answer: a response of any status, or an exception of the transport
ProbeDone(raised, r) ==
    /\ pc = "probe"
    /\ LET exc == ProbeTry(raised, r) IN
       IF exc # NoOutcome
       THEN /\ probe' = "failed"
            /\ warned' = warned + 1
            /\ outcome' = Absorb(exc)
       ELSE /\ probe' = "ok"
            /\ UNCHANGED <<warned, outcome>>
    /\ pc' = "done"
    /\ UNCHANGED <<use_active_session_if_available, base_url, active_session, env_project,
                   call, sent, idx, response, cursor, results, session_log,
                   init_endpoint, init_session>>

ProbeReply == \E s \in Statuses : ProbeDone(FALSE, Response(s, <<>>))
ProbeRaise == ProbeDone(TRUE, NoResponse)

----------------------------------------------------------------------------
(* Client.query_spans *)

\* a faulty resolution: the environment's default comes first
ResolveProject_EnvFirst(project_name, env) == Or(env, project_name)

\* line 86, 142, 187, 216: project_name or get_env_project_name()
ResolveProject(project_name, env) == Or(project_name, env)

\* a faulty default: an empty query list is sent as it is
DefaultQueries_Keep(queries) == queries

\* lines 87-88: no queries given means one default query
DefaultQueries(queries) == IF queries = <<>> THEN <<SpanQuery("")>> ELSE queries

\* a faulty dispatch: the session found at construction decides
UseSession_AtConstruction(flag, session) == flag /\ init_session

\* a faulty dispatch: the session is asked for when none is present
UseSession_Inverted(flag, session) == flag /\ ~session

\* lines 89, 143: is the call handed to the active session
UseSession(flag, session) == flag /\ session

\* a faulty request: only the first query is carried
SpansRequest_FirstOnly(base, queries, start_time, stop_time, root_spans_only, project_name) ==
    Request("GET", urljoin(base, "/v1/spans"),
            [queries |-> <<to_dict(queries[1])>>,
             start_time |-> _to_iso_format(start_time),
             stop_time |-> _to_iso_format(stop_time),
             root_spans_only |-> root_spans_only,
             project_name |-> project_name],
            NoData, NoHeaders)

\* lines 97-106: the request of query_spans
SpansRequest(base, queries, start_time, stop_time, root_spans_only, project_name) ==
    Request("GET", urljoin(base, "/v1/spans"),
            [queries |-> Map(to_dict, queries),
             start_time |-> _to_iso_format(start_time),
             stop_time |-> _to_iso_format(stop_time),
             root_spans_only |-> root_spans_only,
             project_name |-> project_name],
            NoData, NoHeaders)

\* query_spans up to its request, or to its end when the session answers
QuerySpans(queries, start_time, stop_time, root_spans_only, project_name) ==
    /\ pc = "idle"
    /\ call' = [op |-> "query_spans", queries |-> queries, start_time |-> start_time,
                stop_time |-> stop_time, root_spans_only |-> root_spans_only,
                project_name |-> project_name]
    /\ idx' = 0
    /\ response' = NoResponse
    /\ cursor' = 1
    /\ results' = <<>>
    /\ LET project == ResolveProject(project_name, env_project)
           qs == DefaultQueries(queries)
       IN IF UseSession(use_active_session_if_available, active_session)
          THEN \E v \in SessionValues :
                 /\ session_log' = <<[method |-> "query_spans", queries |-> qs,
                                      start_time |-> start_time, stop_time |-> stop_time,
                                      root_spans_only |-> root_spans_only,
                                      project_name |-> project, returned |-> v]>>
                 /\ sent' = <<>>
                 /\ outcome' = Return(v)
                 /\ pc' = "done"
          ELSE /\ session_log' = <<>>
               /\ sent' = <<SpansRequest(base_url, qs, start_time, stop_time,
                                         root_spans_only, project)>>
               /\ outcome' = NoOutcome
               /\ pc' = "wait"
    /\ UNCHANGED <<use_active_session_if_available, base_url, active_session, env_project,
                   probe, warned, init_endpoint, init_session>>

\* a faulty classifier: 404 is left to raise_for_status()
Classify_No404(r) ==
    IF r.status_code = 422 THEN "invalid"
    ELSE IF raise_for_status(r) THEN "error"
    ELSE "decode"

\* lines 107-112, 149-154: what a response's status does to a query or fetch:
\* "none" (404), "invalid" (422), "error" (raise_for_status raises), "decode"
Classify(r) ==
    IF r.status_code = 404 THEN "none"
    ELSE IF r.status_code = 422 THEN "invalid"
    ELSE IF raise_for_status(r) THEN "error"
    ELSE "decode"

\* a faulty 422 branch: the error does not carry the body
RaiseInvalid_NoBody(r) == Raise("ValueError", <<>>)

\* lines 111, 153: raise ValueError(response.content.decode())
RaiseInvalid(r) ==
    LET d == Utf8Decode(r.content) IN
    IF d.ok THEN Raise("ValueError", d.text) ELSE Raise("UnicodeDecodeError", <<>>)

\* a faulty collapsing rule: no result at all is returned as None
Collapse_NothingIsNone(rs) ==
    IF Len(rs) = 0 THEN PyNone
    ELSE IF Len(rs) = 1
    THEN IF shape(rs[1]) = <<0, 0>> THEN PyNone ELSE DataFrame(rs[1])
    ELSE PyList(rs)

\* a faulty collapsing rule: the single result is returned even when it is 0x0
Collapse_KeepsEmpty(rs) == IF Len(rs) = 1 THEN DataFrame(rs[1]) ELSE PyList(rs)

\* lines 121-124: one result is returned alone, and as None when it is 0x0
Collapse(rs) ==
    IF Len(rs) = 1
    THEN IF shape(rs[1]) = <<0, 0>> THEN PyNone ELSE DataFrame(rs[1])
    ELSE PyList(rs)

\* the answer to the request of query_spans, up to the decode loop
QuerySpansReply(r) ==
    /\ pc = "wait"
    /\ call.op = "query_spans"
    /\ response' = r
    /\ CASE Classify(r) = "none" -> outcome' = Return(PyNone) /\ pc' = "done"
         [] Classify(r) = "invalid" -> outcome' = RaiseInvalid(r) /\ pc' = "done"
         [] Classify(r) = "error" -> outcome' = RaiseHTTPError(r) /\ pc' = "done"
         [] OTHER -> outcome' = NoOutcome /\ pc' = "decode"
    /\ cursor' = 1
    /\ results' = <<>>
    /\ UNCHANGED <<use_active_session_if_available, base_url, active_session, env_project,
                   call, sent, idx, session_log, probe, warned, init_endpoint, init_session>>

\* lines 115-124: one turn of the decode loop of query_spans; the turn that
\* catches ArrowInvalid leaves the loop and returns
QuerySpansDecode ==
    /\ pc = "decode"
    /\ call.op = "query_spans"
    /\ LET d == open_stream(response.content, cursor) IN
       IF d.ok
       THEN /\ results' = Append(results, d.table)
            /\ cursor' = d.pos
            /\ UNCHANGED <<pc, outcome>>
       ELSE /\ outcome' = Return(Collapse(results))
            /\ pc' = "done"
            /\ UNCHANGED <<results, cursor>>
    /\ UNCHANGED <<use_active_session_if_available, base_url, active_session, env_project,
                   call, sent, idx, response, session_log, probe, warned, init_endpoint, init_session>>

----------------------------------------------------------------------------
(* Client.get_evaluations *)

\* Evaluations.from_pyarrow_reader(reader): the Evaluations object of a table
Evaluations(tbl) == [t |-> "Evaluations", table |-> tbl]

\* lines 145-148: the request of get_evaluations
EvaluationsRequest(base, project_name) ==
    Request("GET", urljoin(base, "/v1/evaluations"), [project_name |-> project_name],
            NoData, NoHeaders)

GetEvaluations(project_name) ==
    /\ pc = "idle"
    /\ call' = [op |-> "get_evaluations", project_name |-> project_name]
    /\ idx' = 0
    /\ response' = NoResponse
    /\ cursor' = 1
    /\ results' = <<>>
    /\ LET project == ResolveProject(project_name, env_project)
       IN IF UseSession(use_active_session_if_available, active_session)
          THEN \E v \in SessionValues :
                 /\ session_log' = <<[method |-> "get_evaluations",
                                      project_name |-> project, returned |-> v]>>
                 /\ sent' = <<>>
                 /\ outcome' = Return(v)
                 /\ pc' = "done"
          ELSE /\ session_log' = <<>>
               /\ sent' = <<EvaluationsRequest(base_url, project)>>
               /\ outcome' = NoOutcome
               /\ pc' = "wait"
    /\ UNCHANGED <<use_active_session_if_available, base_url, active_session, env_project,
                   probe, warned, init_endpoint, init_session>>

GetEvaluationsReply(r) ==
    /\ pc = "wait"
    /\ call.op = "get_evaluations"
    /\ response' = r
    /\ CASE Classify(r) = "none" -> outcome' = Return(PyList(<<>>)) /\ pc' = "done"
         [] Classify(r) = "invalid" -> outcome' = RaiseInvalid(r) /\ pc' = "done"
         [] Classify(r) = "error" -> outcome' = RaiseHTTPError(r) /\ pc' = "done"
         [] OTHER -> outcome' = NoOutcome /\ pc' = "decode"
    /\ cursor' = 1
    /\ results' = <<>>
    /\ UNCHANGED <<use_active_session_if_available, base_url, active_session, env_project,
                   call, sent, idx, session_log, probe, warned, init_endpoint, init_session>>

\* lines 157-163: one turn of the decode loop of get_evaluations
GetEvaluationsDecode ==
    /\ pc = "decode"
    /\ call.op = "get_evaluations"
    /\ LET d == open_stream(response.content, cursor) IN
       IF d.ok
       THEN /\ results' = Append(results, Evaluations(d.table))
            /\ cursor' = d.pos
            /\ UNCHANGED <<pc, outcome>>
       ELSE /\ outcome' = Return(PyList(results))
            /\ pc' = "done"
            /\ UNCHANGED <<results, cursor>>
    /\ UNCHANGED <<use_active_session_if_available, base_url, active_session, env_project,
                   call, sent, idx, response, session_log, probe, warned, init_endpoint, init_session>>

----------------------------------------------------------------------------
(* Client.log_evaluations *)

\* Evaluations objects a caller uploads
EvalObjects == {Evaluations(Table(1, 1, "a")), Evaluations(Table(0, 1, "b"))}

\* Evaluations.to_pyarrow_table()
to_pyarrow_table(evaluation) == evaluation.table

\* lines 190, 194-195, 198: the table written as one IPC stream into the sink
EncodeTable(tbl) == <<Ipc(tbl)>>

\* faulty headers: the project-name header is set whatever the name is
EvaluationHeaders_Always(project_name) ==
    ("content-type" :> "application/x-pandas-arrow") @@ ("project-name" :> project_name)

\* lines 191-193: the headers of an upload
EvaluationHeaders(project_name) ==
    IF Truthy(project_name)
    THEN ("content-type" :> "application/x-pandas-arrow") @@ ("project-name" :> project_name)
    ELSE ("content-type" :> "application/x-pandas-arrow")

\* lines 189-200: the request for one Evaluations object
UploadRequest(base, evaluation, project_name) ==
    Request("POST", urljoin(base, "/v1/evaluations"), NoJson,
            EncodeTable(to_pyarrow_table(evaluation)), EvaluationHeaders(project_name))

\* lines 188, 236: the loop goes on after the item numbered done, or ends
NextItem(done, total) == IF done < total THEN done + 1 ELSE 0

\* log_evaluations up to its first request; without evals it returns at once
LogEvaluations(evals, project_name) ==
    /\ pc = "idle"
    /\ call' = [op |-> "log_evaluations", evals |-> evals, project_name |-> project_name]
    /\ idx' = 0
    /\ response' = NoResponse
    /\ cursor' = 1
    /\ results' = <<>>
    /\ session_log' = <<>>
    /\ LET project == ResolveProject(project_name, env_project)
           i == NextItem(0, Len(evals))
       IN IF i = 0
          THEN /\ sent' = <<>>
               /\ outcome' = Return(PyNone)
               /\ pc' = "done"
          ELSE /\ sent' = <<UploadRequest(base_url, evals[i], project)>>
               /\ outcome' = NoOutcome
               /\ pc' = "wait"
    /\ UNCHANGED <<use_active_session_if_available, base_url, active_session, env_project,
                   probe, warned, init_endpoint, init_session>>

\* the answer to an upload: raise_for_status(), then the next item's request
LogEvaluationsReply(r) ==
    /\ pc = "wait"
    /\ call.op = "log_evaluations"
    /\ response' = r
    /\ IF raise_for_status(r)
       THEN /\ outcome' = RaiseHTTPError(r)
            /\ pc' = "done"
            /\ UNCHANGED <<idx, sent>>
       ELSE LET project == ResolveProject(call.project_name, env_project)
                i == NextItem(idx + 1, Len(call.evals))
            IN /\ idx' = idx + 1
               /\ IF i = 0
                  THEN /\ outcome' = Return(PyNone)
                       /\ pc' = "done"
                       /\ UNCHANGED sent
                  ELSE /\ sent' = Append(sent, UploadRequest(base_url, call.evals[i], project))
                       /\ UNCHANGED <<outcome, pc>>
    /\ UNCHANGED <<use_active_session_if_available, base_url, active_session, env_project,
                   call, cursor, results, session_log, probe, warned, init_endpoint, init_session>>

----------------------------------------------------------------------------
(* Client.log_traces *)

\* the spans of a TraceDataset
Span(id) == [span_id |-> id]
Spans == {Span("s1"), Span("s2")}

\* TraceDataset.to_spans(): the spans of the dataset in its order
to_spans(trace_dataset) == trace_dataset

\* phoenix.trace.otel.encode_span_to_otlp(span)
encode_span_to_otlp(span) == [otlp |-> span.span_id]

\* lines 219-233: the message of one span
ExportTraceServiceRequest(span, project_name) ==
    [resource_spans |->
       << [resource |->
             [attributes |-> << [key |-> "openinference.project.name",
                                 value |-> [string_value |-> project_name]] >>],
           scope_spans |-> << [spans |-> << encode_span_to_otlp(span) >>] >>] >>]

\* a faulty export: all spans are batched into one message
OtlpSpans_Batched(spans, project_name) ==
    IF spans = <<>> THEN <<>>
    ELSE << [resource_spans |->
               << [resource |->
                     [attributes |-> << [key |-> "openinference.project.name",
                                         value |-> [string_value |-> project_name]] >>],
                   scope_spans |->
                     << [spans |-> [i \in 1..Len(spans) |-> encode_span_to_otlp(spans[i])]] >>]
               >>] >>

\* lines 218-235: one message per span, in the order of the spans
OtlpSpans(spans, project_name) ==
    [i \in 1..Len(spans) |-> ExportTraceServiceRequest(spans[i], project_name)]

\* protobuf serialisation and gzip, with the functions that undo them
SerializeToString(msg) == [pb |-> msg]
ParseFromString(bytes) == bytes.pb
compress(bytes) == [gzip |-> bytes]
decompress(data) == data.gzip

\* lines 237-246: the request for one message
ExportRequest(base, otlp_span) ==
    Request("POST", urljoin(base, "/v1/traces"), NoJson,
            compress(SerializeToString(otlp_span)),
            ("content-type" :> "application/x-protobuf") @@ ("content-encoding" :> "gzip"))

\* log_traces up to its first request; without spans it returns at once
LogTraces(trace_dataset, project_name) ==
    /\ pc = "idle"
    /\ call' = [op |-> "log_traces", trace_dataset |-> trace_dataset,
                project_name |-> project_name]
    /\ idx' = 0
    /\ response' = NoResponse
    /\ cursor' = 1
    /\ results' = <<>>
    /\ session_log' = <<>>
    /\ LET project == ResolveProject(project_name, env_project)
           otlp_spans == OtlpSpans(to_spans(trace_dataset), project)
           i == NextItem(0, Len(otlp_spans))
       IN IF i = 0
          THEN /\ sent' = <<>>
               /\ outcome' = Return(PyNone)
               /\ pc' = "done"
          ELSE /\ sent' = <<ExportRequest(base_url, otlp_spans[i])>>
               /\ outcome' = NoOutcome
               /\ pc' = "wait"
    /\ UNCHANGED <<use_active_session_if_available, base_url, active_session, env_project,
                   probe, warned, init_endpoint, init_session>>

\* the answer to an export: raise_for_status(), then the next message's request
LogTracesReply(r) ==
    /\ pc = "wait"
    /\ call.op = "log_traces"
    /\ response' = r
    /\ IF raise_for_status(r)
       THEN /\ outcome' = RaiseHTTPError(r)
            /\ pc' = "done"
            /\ UNCHANGED <<idx, sent>>
       ELSE LET project == ResolveProject(call.project_name, env_project)
                otlp_spans == OtlpSpans(to_spans(call.trace_dataset), project)
                i == NextItem(idx + 1, Len(otlp_spans))
            IN /\ idx' = idx + 1
               /\ IF i = 0
                  THEN /\ outcome' = Return(PyNone)
                       /\ pc' = "done"
                       /\ UNCHANGED sent
                  ELSE /\ sent' = Append(sent, ExportRequest(base_url, otlp_spans[i]))
                       /\ UNCHANGED <<outcome, pc>>
    /\ UNCHANGED <<use_active_session_if_available, base_url, active_session, env_project,
                   call, cursor, results, session_log, probe, warned, init_endpoint, init_session>>

----------------------------------------------------------------------------
(* The transport fails: Session.get / Session.post raise (no connection) *)

TransportRaise ==
    /\ pc = "wait"
    /\ outcome' = Raise("ConnectionError", <<>>)
    /\ response' = NoResponse
    /\ pc' = "done"
    /\ UNCHANGED <<use_active_session_if_available, base_url, active_session, env_project,
                   call, sent, idx, cursor, results, session_log, probe, warned,
                   init_endpoint, init_session>>

----------------------------------------------------------------------------
(* Between calls *)

\* The caller goes on after a call (or the constructor) has ended: what was
\* recorded about that call is dropped, the client and its surroundings stay.
Forget ==
    /\ pc = "done"
    /\ pc' = "idle"
    /\ call' = NoCall
    /\ sent' = <<>>
    /\ idx' = 0
    /\ response' = NoResponse
    /\ cursor' = 1
    /\ results' = <<>>
    /\ outcome' = NoOutcome
    /\ session_log' = <<>>
    /\ probe' = "-"
    /\ warned' = 0
    /\ UNCHANGED <<use_active_session_if_available, base_url, active_session, env_project,
                   init_endpoint, init_session>>

----------------------------------------------------------------------------
(* The specification *)

\* bodies of the answers whose body the client does not read, and of a 304,
\* which has none
PlainBodies == {<<>>, <<Ipc(Table(1, 1, "t"))>>}
UploadBodies == {<<>>, <<Raw(195), Raw(169)>>}

\* bodies to decode: IPC streams, with a byte that starts no stream among them
ArrowBodies == SeqsUpTo({Raw(195)} \cup {Ipc(tbl) : tbl \in Tables}, MaxBody)

\* bodies to read as text: bytes, and a body that is an IPC stream
TextBodies == SeqsUpTo({Raw(b) : b \in RawBytes}, MaxBody) \cup {<<Ipc(Table(1, 1, "t"))>>}

\* the answers to a query or a fetch
FetchResponses ==
    {Response(200, b) : b \in ArrowBodies}
    \cup {Response(422, b) : b \in TextBodies}
    \cup {Response(s, b) : s \in {404, 500}, b \in PlainBodies}
    \cup {Response(304, <<>>)}

\* the answers to an upload or an export
UploadResponses == {Response(s, b) : s \in Statuses, b \in UploadBodies}

QueryArgs == SeqsUpTo(SpanQueries, MaxQueries)

\* the query lists of the query_spans calls of Spec: none, one, several
SomeQueries == {<<>>, <<SpanQuery("f")>>, <<SpanQuery("f"), SpanQuery("")>>}

\* start_time, stop_time, root_spans_only of the query_spans calls of Spec
SomeRanges == {<<NoneTime, NoneTime, None>>, <<DateTime(9, 0), DateTime(17, 5), "True">>}

DoConstruct ==
    \E endpoint \in Endpoints, use_active \in BOOLEAN,
       env_endpoint \in EnvEndpoints, env_host \in EnvHosts :
        Construct(endpoint, use_active, env_endpoint, env_host)

DoQuerySpans(lists, ranges) ==
    \E queries \in lists, range \in ranges, project_name \in ProjectNames :
        QuerySpans(queries, range[1], range[2], range[3], project_name)

DoQuerySpansReply(responses) == \E r \in responses : QuerySpansReply(r)

DoGetEvaluations == \E project_name \in ProjectNames : GetEvaluations(project_name)

DoGetEvaluationsReply(responses) == \E r \in responses : GetEvaluationsReply(r)

DoLogEvaluations ==
    \E evals \in SeqsUpTo(EvalObjects, MaxEvals), project_name \in ProjectNames :
        LogEvaluations(evals, project_name)

DoLogEvaluationsReply == \E r \in UploadResponses : LogEvaluationsReply(r)

DoLogTraces ==
    \E trace_dataset \in SeqsUpTo(Spans, MaxSpans), project_name \in ProjectNames :
        LogTraces(trace_dataset, project_name)

DoLogTracesReply == \E r \in UploadResponses : LogTracesReply(r)

NextOver(lists, ranges, responses) ==
    \/ LaunchApp
    \/ CloseApp
    \/ DoConstruct
    \/ ProbeReply
    \/ ProbeRaise
    \/ DoQuerySpans(lists, ranges)
    \/ DoQuerySpansReply(responses)
    \/ QuerySpansDecode
    \/ DoGetEvaluations
    \/ DoGetEvaluationsReply(responses)
    \/ GetEvaluationsDecode
    \/ DoLogEvaluations
    \/ DoLogEvaluationsReply
    \/ DoLogTraces
    \/ DoLogTracesReply
    \/ TransportRaise
    \/ Forget

Next == NextOver(SomeQueries, SomeRanges, FetchResponses)

Spec == Init /\ [][Next]_vars

(* The specification of the requests: every query list up to MaxQueries and
   every combination of the ends of the time range, against a few answers *)
AllRanges ==
    {<<start_time, stop_time, root_spans_only>> :
        start_time \in StartTimes, stop_time \in StopTimes, root_spans_only \in RootOptions}

FewResponses ==
    {Response(200, <<>>), Response(200, <<Ipc(Table(1, 1, "t"))>>),
     Response(304, <<>>), Response(404, <<>>), Response(422, <<>>), Response(500, <<>>)}

NextRequests == NextOver(QueryArgs, AllRanges, FewResponses)

SpecRequests == Init /\ [][NextRequests]_vars

----------------------------------------------------------------------------
(* Vocabulary of the properties *)

PublicOps == {"query_spans", "get_evaluations", "log_evaluations", "log_traces"}
FetchOps == {"query_spans", "get_evaluations"}
UploadOps == {"log_evaluations", "log_traces"}

\* a call of one of ops has started and has not been forgotten
InCall(ops) == pc \in {"wait", "decode", "done"} /\ call.op \in ops

\* a call of one of ops has ended
Ended(ops) == pc = "done" /\ call.op \in ops

\* a response has been received and is the last thing the transport did
Answered == response # NoResponse

\* a 2xx status
Success(status) == status >= 200 /\ status <= 299

\* the project name a call resolves, written from the documentation of the
\* operations: the argument when one is given, the environment's otherwise
Resolved == IF call.project_name \notin {None, ""} THEN call.project_name ELSE env_project

\* the text -> bytes direction of UTF-8, for code points below U+0800
RECURSIVE Utf8Encode(_)
Utf8Encode(text) ==
    IF text = <<>> THEN <<>>
    ELSE (IF text[1] < 128 THEN <<Raw(text[1])>>
          ELSE <<Raw(192 + (text[1] \div 64)), Raw(128 + (text[1] % 64))>>)
         \o Utf8Encode(Tail(text))

\* the tables of the IPC streams a body starts with, in order
RECURSIVE Batches(_)
Batches(content) ==
    IF content # <<>> /\ content[1].kind = "ipc"
    THEN <<content[1].table>> \o Batches(Tail(content))
    ELSE <<>>

----------------------------------------------------------------------------
(* C1 *)

\* C1 as stated: in each of the four public operations, when the flag is set
\* and a session is present at the call, the call issues no HTTP request and
\* returns exactly what the session returned.
C1_AllOperationsDelegate ==
    (InCall(PublicOps) /\ use_active_session_if_available /\ active_session)
        => /\ sent = <<>>
           /\ session_log # <<>> => outcome = Return(session_log[1].returned)

\* C1, amended: query_spans and get_evaluations issue no HTTP request and return
\* exactly what the session returned when the flag is set and a session is
\* present; log_evaluations and log_traces never hand the call to the session,
\* and issue one request per item whether a session is present or not.
C1_FetchOperationsDelegate ==
    /\ (InCall(FetchOps) /\ use_active_session_if_available /\ active_session)
         => /\ sent = <<>>
            /\ pc = "done"
            /\ Len(session_log) = 1
            /\ session_log[1].method = call.op
            /\ outcome = Return(session_log[1].returned)
    /\ InCall(UploadOps)
         => /\ session_log = <<>>
            /\ (outcome = Return(PyNone) =>
                  Len(sent) = IF call.op = "log_evaluations" THEN Len(call.evals)
                              ELSE Len(call.trace_dataset))

\* a query answered by the session with a table, and nothing sent
C1_Witness ==
    /\ Ended({"query_spans"})
    /\ use_active_session_if_available /\ active_session
    /\ sent = <<>>
    /\ outcome = Return(DataFrame(Table(1, 1, "s")))

----------------------------------------------------------------------------
(* C2 *)

----------------------------------------------------------------------------
(* C3 *)

\* C3: on the remote path a 404 never raises: query_spans returns None and
\* get_evaluations returns an empty list, and the body is not decoded (the
\* decode loop is not entered, the cursor stays at the start of the body).
C3_NotFoundIsQuiet ==
    (InCall(FetchOps) /\ Answered /\ response.status_code = 404)
        => /\ pc = "done"
           /\ outcome = Return(IF call.op = "query_spans" THEN PyNone ELSE PyList(<<>>))
           /\ results = <<>>
           /\ cursor = 1

\* a 404 whose body holds a table: None is returned all the same
C3_Witness ==
    /\ Ended({"query_spans"})
    /\ response = Response(404, <<Ipc(Table(1, 1, "t"))>>)
    /\ outcome = Return(PyNone)

----------------------------------------------------------------------------
(* C4 *)

\* is the outcome a raised ValueError (UnicodeDecodeError is one) whose message,
\* where the body is text, is that text
RaisedInvalid ==
    /\ outcome.kind = "raise"
    /\ outcome.exc \in {"ValueError", "UnicodeDecodeError"}
    /\ Utf8Decode(response.content).ok
         => (outcome.exc = "ValueError" /\ Utf8Encode(outcome.msg) = response.content)

\* C4 as stated: in every operation a 422 raises ValueError with the body text
\* as its message, and nothing is returned or decoded.
C4_Every422IsInvalidQuery ==
    (InCall(PublicOps) /\ Answered /\ response.status_code = 422)
        => (pc = "done" /\ RaisedInvalid /\ results = <<>> /\ cursor = 1)

\* C4, amended: in query_spans and get_evaluations a 422 raises ValueError with
\* the body text as its message (UnicodeDecodeError, a ValueError, when the body
\* is not UTF-8), and nothing is returned or decoded; in log_evaluations and
\* log_traces a 422 raises the HTTPError of raise_for_status() instead.
C4_Fetch422IsInvalidQuery ==
    /\ (InCall(FetchOps) /\ Answered /\ response.status_code = 422)
         => /\ pc = "done"
            /\ RaisedInvalid
            /\ (~Utf8Decode(response.content).ok => outcome.exc = "UnicodeDecodeError")
            /\ results = <<>>
            /\ cursor = 1
    /\ (InCall(UploadOps) /\ Answered /\ response.status_code = 422)
         => (pc = "done" /\ outcome = RaiseHTTPError(response))

\* a 422 with the two bytes of U+00E9 as its body: the message is that letter
C4_Witness ==
    /\ Ended({"query_spans"})
    /\ response = Response(422, <<Raw(195), Raw(169)>>)
    /\ outcome = Raise("ValueError", <<233>>)

----------------------------------------------------------------------------
(* C5 *)

\* C5 as stated: in every operation, a status that is not 2xx and neither 404
\* nor 422 raises the transport's error; nothing is decoded or returned.
C5_NonSuccessRaises ==
    (InCall(PublicOps) /\ Answered /\ ~Success(response.status_code)
       /\ response.status_code \notin {404, 422})
        => /\ pc = "done"
           /\ outcome = RaiseHTTPError(response)
           /\ results = <<>>
           /\ cursor = 1

\* C5, amended: in every operation, a 4xx or 5xx status other than 404 and 422
\* raises HTTPError, and so do 404 and 422 in log_evaluations and log_traces;
\* query_spans and get_evaluations decode and return nothing for it.  A status
\* below 400 never raises: a 3xx answer is handled like a success.
C5_ErrorStatusRaises ==
    /\ (InCall(PublicOps) /\ Answered /\ response.status_code >= 400
          /\ (response.status_code \notin {404, 422} \/ call.op \in UploadOps))
         => /\ pc = "done"
            /\ outcome = RaiseHTTPError(response)
            /\ results = <<>>
            /\ cursor = 1
    /\ (InCall(PublicOps) /\ Answered /\ response.status_code < 400)
         => outcome.kind \in {"-", "return"}
    /\ (pc = "decode") => response.status_code < 400

\* a 500 with a table in its body: HTTPError, nothing decoded
C5_Witness ==
    /\ Ended({"get_evaluations"})
    /\ response = Response(500, <<Ipc(Table(1, 1, "t"))>>)
    /\ outcome = RaiseHTTPError(response)
    /\ results = <<>>

----------------------------------------------------------------------------
(* C6 *)

\* C6: the collapsing rule of query_spans on an answer that is decoded: one
\* batch of shape 0x0 gives None; one batch of any other shape gives that batch
\* itself, not a list; N > 1 batches give the list of the N batches in arrival
\* order, 0x0 batches included.
C6_Collapsing ==
    (Ended({"query_spans"}) /\ Answered /\ outcome.kind = "return"
       /\ response.status_code # 404)
        => LET batches == Batches(response.content) IN
           /\ (Len(batches) = 1 /\ batches[1].rows = 0 /\ batches[1].cols = 0)
                => outcome.value = PyNone
           /\ (Len(batches) = 1 /\ (batches[1].rows > 0 \/ batches[1].cols > 0))
                => outcome.value = DataFrame(batches[1])
           /\ Len(batches) > 1
                => /\ outcome.value.t = "list"
                   /\ Len(outcome.value.v) = Len(batches)
                   /\ \A i \in 1..Len(batches) : outcome.value.v[i] = batches[i]

\* two batches, the first of them 0x0: a list of both, the empty one in place
C6_Witness ==
    /\ Ended({"query_spans"})
    /\ response.status_code = 200
    /\ outcome = Return(PyList(<<Table(0, 0, "t"), Table(1, 1, "t")>>))

----------------------------------------------------------------------------
(* C7 *)

\* C7: a log_evaluations call with K records whose answers all let it go on
\* issues exactly K POSTs to /v1/evaluations, in the order of the records; the
\* body of the i-th is one IPC stream holding the table of the i-th record and
\* nothing else; each carries the project-name header, equal to the resolved
\* name, exactly when a name is resolved.
C7_OneUploadPerRecord ==
    InCall({"log_evaluations"})
        => /\ Len(sent) <= Len(call.evals)
           /\ \A i \in 1..Len(sent) :
                /\ sent[i].method = "POST"
                /\ sent[i].url = Url(base_url.origin, "/v1/evaluations")
                /\ Len(sent[i].data) = 1
                /\ Batches(sent[i].data) = <<call.evals[i].table>>
                /\ ("project-name" \in DOMAIN sent[i].headers) <=> (Resolved \notin {None, ""})
                /\ ("project-name" \in DOMAIN sent[i].headers)
                     => sent[i].headers["project-name"] = Resolved
           /\ (pc = "done" /\ outcome.kind = "return") => Len(sent) = Len(call.evals)

\* two different records uploaded under a resolved name
C7_Witness ==
    /\ Ended({"log_evaluations"})
    /\ outcome = Return(PyNone)
    /\ Len(call.evals) = 2
    /\ call.evals[1] # call.evals[2]
    /\ Len(sent) = 2
    /\ "project-name" \in DOMAIN sent[2].headers
    /\ sent[2].headers["project-name"] = "default"

----------------------------------------------------------------------------
(* C8 *)

\* the message in the body of a request of log_traces
Message(request) == ParseFromString(decompress(request.data))

\* C8: a log_traces call with M spans whose answers all let it go on issues
\* exactly M POSTs to /v1/traces, in the order of the spans; the body of the
\* i-th is a message of one Resource with one attribute, the resolved project
\* name, one scope wrapper and one span, the i-th; the dataset stays as given.
C8_OneExportPerSpan ==
    /\ [](InCall({"log_traces"})
            => /\ Len(sent) <= Len(call.trace_dataset)
               /\ \A i \in 1..Len(sent) :
                    /\ sent[i].method = "POST"
                    /\ sent[i].url = Url(base_url.origin, "/v1/traces")
                    /\ Len(Message(sent[i]).resource_spans) = 1
                    /\ LET rs == Message(sent[i]).resource_spans[1] IN
                       /\ Len(rs.resource.attributes) = 1
                       /\ rs.resource.attributes[1].key = "openinference.project.name"
                       /\ rs.resource.attributes[1].value.string_value = Resolved
                       /\ Len(rs.scope_spans) = 1
                       /\ Len(rs.scope_spans[1].spans) = 1
                       /\ rs.scope_spans[1].spans[1] = encode_span_to_otlp(call.trace_dataset[i])
               /\ (pc = "done" /\ outcome.kind = "return")
                    => Len(sent) = Len(call.trace_dataset))
    /\ [][(pc = "wait" /\ call.op = "log_traces")
            => call'.trace_dataset = call.trace_dataset]_vars

\* two different spans exported
C8_Witness ==
    /\ Ended({"log_traces"})
    /\ outcome = Return(PyNone)
    /\ call.trace_dataset = <<Span("s2"), Span("s1")>>
    /\ Len(sent) = 2

----------------------------------------------------------------------------
(* C9 *)

\* the items of an upload or export call
Items == IF call.op = "log_evaluations" THEN call.evals ELSE call.trace_dataset

\* the request of the i-th item of the call
ItemRequest(i) ==
    IF call.op = "log_evaluations"
    THEN UploadRequest(base_url, call.evals[i], Resolved)
    ELSE ExportRequest(base_url, ExportTraceServiceRequest(call.trace_dataset[i], Resolved))

\* C9 as stated: in log_evaluations and log_traces the first answer that is not
\* 2xx makes the call raise there, with exactly as many requests issued as items
\* reached, and none for the later items.
C9_FirstNonSuccessStops ==
    (InCall(UploadOps) /\ Answered /\ ~Success(response.status_code))
        => /\ pc = "done"
           /\ outcome = RaiseHTTPError(response)
           /\ Len(sent) = idx + 1

\* C9, amended: in log_evaluations and log_traces the first answer with a 4xx
\* or 5xx status (or the first failure of the transport) makes the call raise
\* there: when it was the answer to the i-th item, exactly i requests have been
\* issued, one per item 1..i in order, none twice, and none for items i+1..K.
\* An answer below 400 lets the call go on to the next item.
C9_FirstErrorStops ==
    InCall(UploadOps)
        => /\ \A i \in 1..Len(sent) : i <= Len(Items) /\ sent[i] = ItemRequest(i)
           /\ (Answered /\ response.status_code >= 400)
                => /\ pc = "done"
                   /\ outcome = RaiseHTTPError(response)
                   /\ Len(sent) = idx + 1
           /\ (pc = "done" /\ outcome.kind = "raise") => Len(sent) = idx + 1
           /\ (pc = "done" /\ outcome.kind = "return") => Len(sent) = idx
           /\ (pc = "wait") => Len(sent) = idx + 1
           /\ (Answered /\ response.status_code < 400 /\ idx < Len(Items)) => pc = "wait"

\* the first of two uploads answered 500: one request issued, the call raised
C9_Witness ==
    /\ Ended({"log_evaluations"})
    /\ Len(call.evals) = 2
    /\ response.status_code = 500
    /\ outcome = RaiseHTTPError(response)
    /\ Len(sent) = 1

----------------------------------------------------------------------------
(* C10 *)

\* C10: the constructor ends without raising whatever the probe did (an
\* exception of the transport, any status); a failed probe leaves one warning
\* and nothing else; the fields of the client are what the arguments and the
\* environment make them, the same for every outcome of the probe.
C10_ProbeIsAbsorbed ==
    /\ pc = "probe" => (ENABLED ProbeRaise /\ ENABLED ProbeReply)
    /\ (pc \in {"probe", "done"} /\ call.op = "__init__")
         => /\ outcome = NoOutcome
            /\ use_active_session_if_available =
                 (call.use_active_session_if_available
                    /\ call.endpoint \in {NoneUrl, Url("", "")})
            /\ base_url =
                 (IF call.endpoint \notin {NoneUrl, Url("", "")} THEN call.endpoint
                  ELSE IF call.env_endpoint \notin {NoneUrl, Url("", "")}
                       THEN call.env_endpoint
                  ELSE IF call.env_host = "0.0.0.0" THEN Url("http://127.0.0.1:6006", "")
                  ELSE Url("http://localhost:6006", ""))
            /\ (pc = "done") => /\ probe \in {"skipped", "ok", "failed"}
                                /\ warned = (IF probe = "failed" THEN 1 ELSE 0)

\* the constructor has ended after a probe that failed
C10_Witness ==
    /\ pc = "done"
    /\ call.op = "__init__"
    /\ probe = "failed"
    /\ warned = 1
    /\ outcome = NoOutcome

----------------------------------------------------------------------------
(* C11 *)

\* the dictionary of the default, unfiltered query
DefaultQueryDict == [filter |-> [condition |-> ""]]

\* the query list a query_spans call submitted: the dictionaries of the request
\* on the remote path, the queries handed to the session on the local path
Submitted == IF sent # <<>> THEN sent[1].json.queries ELSE session_log[1].queries

\* C11: a query_spans call with no queries submits what the call with the one
\* default query and the same other arguments submits: on the remote path the
\* request is the one built from the other arguments alone with the default
\* query's dictionary as its only query, on the local path the session gets the
\* other arguments and the one-element list of the default query; and the query
\* list submitted on either path is never empty.
C11_ZeroQueriesIsDefaultQuery ==
    InCall({"query_spans"}) =>
        /\ Len(Submitted) >= 1
        /\ call.queries \in {<<>>, <<SpanQuery("")>>} =>
            /\ sent # <<>> =>
                /\ Len(sent) = 1
                /\ sent[1].method = "GET"
                /\ sent[1].url = Url(base_url.origin, "/v1/spans")
                /\ sent[1].json.queries = <<DefaultQueryDict>>
                /\ sent[1].json.start_time = _to_iso_format(call.start_time)
                /\ sent[1].json.stop_time = _to_iso_format(call.stop_time)
                /\ sent[1].json.root_spans_only = call.root_spans_only
                /\ sent[1].json.project_name = Resolved
                /\ sent[1].data = NoData
                /\ sent[1].headers = NoHeaders
            /\ sent = <<>> =>
                /\ Len(session_log) = 1
                /\ session_log[1].method = "query_spans"
                /\ session_log[1].queries = <<SpanQuery("")>>
                /\ session_log[1].start_time = call.start_time
                /\ session_log[1].stop_time = call.stop_time
                /\ session_log[1].root_spans_only = call.root_spans_only
                /\ session_log[1].project_name = Resolved

\* a call with no queries has put the default query in its request
C11_Witness ==
    /\ InCall({"query_spans"})
    /\ call.queries = <<>>
    /\ call.start_time # NoneTime
    /\ Len(sent) = 1
    /\ sent[1].json.queries = <<DefaultQueryDict>>

\* a call with no queries has handed the default query to the session
C11_WitnessLocal ==
    /\ Ended({"query_spans"})
    /\ call.queries = <<>>
    /\ Len(session_log) = 1
    /\ session_log[1].queries = <<SpanQuery("")>>

----------------------------------------------------------------------------
(* C12 *)

\* the ISO-8601 texts of the timestamps of the model, written out
IsoText(d) ==
    CASE d = DateTime(9, 0) -> "2024-01-01T09:00:00"
      [] d = DateTime(17, 5) -> "2024-01-01T17:00:00.000005"

\* the value a request carries for one end of the time range: nothing for an
\* end that was not given, the ISO-8601 text of the timestamp for one that was
EndOfRange(d) == IF d = NoneTime THEN None ELSE IsoText(d)

\* C12: in the request of query_spans each end of the time range is serialized
\* from its own argument alone: start_time is nothing when no start was given
\* and the ISO-8601 text of the start when one was, whatever the stop is, and
\* stop_time likewise from the stop, whatever the start is.
C12_EndsOfRangeAreIndependent ==
    (InCall({"query_spans"}) /\ sent # <<>>) =>
        /\ sent[1].json.start_time = EndOfRange(call.start_time)
        /\ sent[1].json.stop_time = EndOfRange(call.stop_time)

\* a request with a start and no stop
C12_Witness ==
    /\ InCall({"query_spans"})
    /\ Len(sent) = 1
    /\ call.start_time = DateTime(9, 0)
    /\ call.stop_time = NoneTime
    /\ sent[1].json.start_time = "2024-01-01T09:00:00"
    /\ sent[1].json.stop_time = None

\* a request with a stop and no start
C12_WitnessStopOnly ==
    /\ InCall({"query_spans"})
    /\ Len(sent) = 1
    /\ call.start_time = NoneTime
    /\ call.stop_time = DateTime(17, 5)
    /\ sent[1].json.start_time = None
    /\ sent[1].json.stop_time = "2024-01-01T17:00:00.000005"

----------------------------------------------------------------------------
(* C13 *)

\* the queries a query_spans call has to submit
QueriesOfCall == IF call.queries = <<>> THEN <<SpanQuery("")>> ELSE call.queries

\* the only request of a query_spans call that went to the network is one GET
\* to /v1/spans with the dictionaries of all the queries, in the order given
OneGetForAllQueries ==
    (InCall({"query_spans"}) /\ session_log = <<>>) =>
        /\ Len(sent) = 1
        /\ sent[1].method = "GET"
        /\ sent[1].url.path = "/v1/spans"
        /\ Len(sent[1].json.queries) = Len(QueriesOfCall)
        /\ \A i \in 1..Len(QueriesOfCall) :
               sent[1].json.queries[i] = [filter |-> [condition |-> QueriesOfCall[i].filter]]

\* requests issued so far never exceed the answers taken in by more than one,
\* and the i-th request of an upload is the request of the i-th item
OneOutstanding ==
    /\ InCall(FetchOps) => Len(sent) <= 1
    /\ InCall(UploadOps) =>
        /\ Len(sent) <= idx + 1
        /\ Len(sent) <= Len(Items)
        /\ pc = "wait" => Len(sent) = idx + 1
        /\ \A i \in 1..Len(sent) : sent[i] = ItemRequest(i)
    /\ pc \in {"probe", "done"} /\ call.op = "__init__" => Len(sent) <= 1

\* a step issues at most one request, after the requests already issued, and
\* while a request is awaited only the step that takes its answer issues one
OneAfterAnother ==
    (sent' # sent /\ sent' # <<>>) =>
        /\ Len(sent') = Len(sent) + 1
        /\ SubSeq(sent', 1, Len(sent)) = sent
        /\ pc \in {"probe", "wait"} => (response' # NoResponse /\ idx' = idx + 1)

\* C13: a query_spans call on the remote path issues exactly one GET to
\* /v1/spans however many queries it has, carrying all of them in the order
\* submitted; no operation has more than one request outstanding, and the
\* requests of a call with several items are issued one after another in the
\* order of the items.
C13_OneRequestAtATime ==
    /\ [](OneGetForAllQueries /\ OneOutstanding)
    /\ [][OneAfterAnother]_vars

\* a call with two different queries has issued its one request
C13_Witness ==
    /\ Ended({"query_spans"})
    /\ call.queries = <<SpanQuery("f"), SpanQuery("")>>
    /\ Len(sent) = 1
    /\ sent[1].json.queries = <<[filter |-> [condition |-> "f"]], [filter |-> [condition |-> ""]]>>
    /\ Answered

\* an upload of two items has issued its second request after the first answer
C13_WitnessUpload ==
    /\ InCall(UploadOps)
    /\ pc = "wait"
    /\ Len(sent) = 2
    /\ idx = 1

----------------------------------------------------------------------------
(* C14 *)

\* the project names a call has used so far: in the bodies of its fetches, in
\* the project-name headers of its uploads, in the Resource attributes of its
\* exports and in what it handed to the session
UsedProjects ==
    IF call.op \in FetchOps
    THEN {sent[i].json.project_name : i \in 1..Len(sent)}
         \cup {session_log[i].project_name : i \in 1..Len(session_log)}
    ELSE IF call.op = "log_evaluations"
    THEN {sent[i].headers["project-name"] :
            i \in {j \in 1..Len(sent) : "project-name" \in DOMAIN sent[j].headers}}
    ELSE {Message(sent[i]).resource_spans[1].resource.attributes[1].value.string_value :
            i \in 1..Len(sent)}

\* C14 as stated: the project name used is the project_name argument whenever
\* one is given, the empty text included, and the environment's otherwise.
C14_GivenProjectIsUsed ==
    InCall(PublicOps) =>
        \A used \in UsedProjects :
            used = (IF call.project_name # None THEN call.project_name ELSE env_project)

\* C14: in all four operations the project name used is the project_name
\* argument when a non-empty one is given, and the environment's default
\* otherwise, that is when the argument is missing or the empty text; a fetch
\* and an export always carry a project name.
C14_NonEmptyProjectIsUsed ==
    InCall(PublicOps) =>
        /\ \A used \in UsedProjects :
            used = (IF call.project_name \notin {None, ""}
                    THEN call.project_name ELSE env_project)
        /\ (call.op # "log_evaluations" /\ (sent # <<>> \/ session_log # <<>>))
            => UsedProjects # {}

\* an export names the project given although the environment has a default
C14_Witness ==
    /\ InCall({"log_traces"})
    /\ call.project_name = "p"
    /\ env_project = "default"
    /\ Len(sent) = 2
    /\ UsedProjects = {"p"}

\* a call given the empty text has used the environment's default
C14_WitnessEmpty ==
    /\ InCall(PublicOps)
    /\ call.project_name = ""
    /\ UsedProjects = {"default"}

----------------------------------------------------------------------------
(* C15 *)

\* the constructor has returned
Constructed == pc = "done" /\ call.op = "__init__"

\* the constructor has issued the probe: one GET to /arize_phoenix_version
Probed ==
    /\ Len(sent) = 1
    /\ sent[1].method = "GET"
    /\ sent[1].url = Url(base_url.origin, "/arize_phoenix_version")
    /\ probe \in {"ok", "failed"}

\* C15 as stated: every construction has performed the probe by the time the
\* constructor returns, whatever the flag and whether or not a session is active.
C15_EveryConstructionProbes == Constructed => Probed

\* C15: a construction performs the probe (one GET to /arize_phoenix_version,
\* answered or failed before the constructor returns) unless the local
\* shortcut is enabled and a session is active at that moment; in that case
\* the constructor returns without any request and without a warning.
C15_ProbesUnlessSessionIsUsed ==
    Constructed =>
        IF use_active_session_if_available /\ init_session
        THEN sent = <<>> /\ probe = "skipped" /\ warned = 0
        ELSE Probed

\* a client was constructed with the shortcut on and no session, and has probed
C15_Witness ==
    /\ Constructed
    /\ use_active_session_if_available
    /\ ~init_session
    /\ Probed

\* a client was constructed with the shortcut on while a session was active
C15_WitnessSkipped ==
    /\ Constructed
    /\ use_active_session_if_available
    /\ init_session
    /\ sent = <<>>

----------------------------------------------------------------------------
(* C16 *)

\* The decode loop runs in the caller's thread: once entered, its next turn is
\* taken.
SpecDecode == Spec /\ WF_vars(QuerySpansDecode) /\ WF_vars(GetEvaluationsDecode)

\* what the loop of the call accumulates for one batch
Accumulated(tbl) == IF call.op = "get_evaluations" THEN Evaluations(tbl) ELSE tbl

\* the call got an answer that sent it into the decode loop
Decoding ==
    /\ InCall(FetchOps)
    /\ Answered
    /\ response.status_code \notin {404, 422}
    /\ ~(response.status_code >= 400 /\ response.status_code < 600)

\* in the loop the cursor is inside the body or just behind it, and the results
\* are the batches in front of the cursor, in their order
LoopState ==
    (Decoding /\ pc = "decode") =>
        /\ cursor >= 1
        /\ cursor <= Len(response.content) + 1
        /\ cursor <= Len(Batches(response.content)) + 1
        /\ Len(results) = cursor - 1
        /\ \A i \in 1..Len(results) : results[i] = Accumulated(Batches(response.content)[i])
        /\ outcome = NoOutcome

\* after the loop the call has returned, the cursor is at the first place where
\* no batch could be parsed, and the results are all the batches before it
LoopEnd ==
    (Decoding /\ pc = "done") =>
        /\ outcome.kind = "return"
        /\ cursor = Len(Batches(response.content)) + 1
        /\ (cursor <= Len(response.content) => response.content[cursor].kind # "ipc")
        /\ Len(results) = Len(Batches(response.content))
        /\ \A i \in 1..Len(results) : results[i] = Accumulated(Batches(response.content)[i])
        /\ call.op = "get_evaluations" => outcome = Return(PyList(results))

\* a turn of the loop either parses one batch, moving the cursor forward and
\* adding one result at the end, or leaves the loop with the results as they are
LoopTurn ==
    pc = "decode" =>
        \/ /\ pc' = "decode"
           /\ cursor' = cursor + 1
           /\ results' = Append(results, Accumulated(response.content[cursor].table))
           /\ response' = response
        \/ /\ pc' = "done"
           /\ cursor' = cursor
           /\ results' = results
           /\ response' = response

\* C16: for every body of a successful answer the decode loop of query_spans
\* and of get_evaluations ends; its attempts read at one cursor that only moves
\* forward; it stops at the first attempt that parses no batch, and the call
\* then returns instead of raising; the results are the batches parsed before
\* that place, in their order, one Evaluations object per batch in
\* get_evaluations.
C16_DecodeLoopTerminates ==
    /\ [](LoopState /\ LoopEnd)
    /\ [][LoopTurn]_vars
    /\ (pc = "decode") ~> (pc = "done")

\* the loop of get_evaluations has parsed two batches and stopped at a byte
\* that starts no stream
C16_Witness ==
    /\ Ended({"get_evaluations"})
    /\ Decoding
    /\ Len(response.content) = MaxBody
    /\ Len(results) = MaxBody - 1
    /\ cursor = MaxBody
    /\ response.content[cursor].kind = "raw"
    /\ outcome = Return(PyList(results))

----------------------------------------------------------------------------
(* C17 *)

\* a query_spans call that went to the network has returned
QueryReturned ==
    /\ Ended({"query_spans"})
    /\ session_log = <<>>
    /\ Answered
    /\ outcome.kind = "return"

\* C17: on the remote path query_spans returns None exactly when the status
\* is 404 or the body of a successful answer decodes to one batch of 0 rows and
\* 0 columns; a successful answer whose body decodes to no batch gives the
\* empty list, not None and not an exception.
C17_AbsentResult ==
    /\ QueryReturned =>
        (outcome.value = PyNone
            <=> \/ response.status_code = 404
                \/ /\ Len(Batches(response.content)) = 1
                   /\ Batches(response.content)[1].rows = 0
                   /\ Batches(response.content)[1].cols = 0)
    /\ (Ended({"query_spans"}) /\ Answered /\ Success(response.status_code)
        /\ Batches(response.content) = <<>>)
        => outcome = Return(PyList(<<>>))

\* a 200 with an empty body has given the empty list
C17_Witness ==
    /\ QueryReturned
    /\ response = Response(200, <<>>)
    /\ outcome = Return(PyList(<<>>))

\* a 200 whose body is one table without rows and columns has given None
C17_WitnessEmptyTable ==
    /\ QueryReturned
    /\ response.status_code = 200
    /\ Batches(response.content) = <<Table(0, 0, "t")>>
    /\ outcome = Return(PyNone)

----------------------------------------------------------------------------
(* C18 *)

\* once the constructor has set them, the flag and the base address stay
FixedAtConstruction ==
    pc # "new" =>
        /\ use_active_session_if_available' = use_active_session_if_available
        /\ base_url' = base_url

\* a fetch of a client with the flag on goes to the session when one is active
\* at the call and to the network when none is
LookedUpAtTheCall ==
    (InCall(FetchOps) /\ use_active_session_if_available) =>
        IF active_session
        THEN /\ sent = <<>>
             /\ Len(session_log) = 1
             /\ session_log[1].method = call.op
             /\ outcome = Return(session_log[1].returned)
        ELSE /\ session_log = <<>>
             /\ Len(sent) = 1
             /\ sent[1].method = "GET"

\* C18: the local-shortcut flag and the base address are set by the constructor
\* and never change afterwards, while the active session is looked up at every
\* query_spans and get_evaluations call: with the flag on, a call made while a
\* session is active is delegated to it and a call made while none is active
\* goes to the network, whether or not a session was active when the client
\* was constructed.
C18_SessionLookedUpPerCall ==
    /\ [][FixedAtConstruction]_vars
    /\ []LookedUpAtTheCall

\* a client constructed without a session has delegated a call to a session
\* launched later
C18_Witness ==
    /\ Ended(FetchOps)
    /\ use_active_session_if_available
    /\ ~init_session
    /\ active_session
    /\ Len(session_log) = 1
    /\ sent = <<>>

\* a client constructed while a session was active has sent a call to the
\* network after the session was closed
C18_WitnessClosed ==
    /\ InCall(FetchOps)
    /\ use_active_session_if_available
    /\ init_session
    /\ ~active_session
    /\ Len(sent) = 1

====
